---- MODULE Spec2Model ----
(***************************************************************************)
(* pgdash: the command-line uploader (src/main.go, both revisions held in  *)
(* the file: the 2018 'quick' tool and the 2023 'report' tool) and the     *)
(* alerting-rule validator described in spec.md sections 3 and 4.          *)
(*                                                                         *)
(* Strings that the code inspects character by character (API keys, names, *)
(* schema versions) are sequences of ASCII codes.  Times are Go time.Time  *)
(* values reduced to [sec, nsec].                                          *)
(***************************************************************************)
EXTENDS Integers, Sequences, FiniteSets, TLC

\* ------------------------------------------------------------------ bounds
\* Most arguments given after the command name.
MaxArgs == 2
\* Largest of the small threshold values given to a rule.
MaxValue == 1
\* Most rules in one AlertSettings.
MaxRules == 2

\* ------------------------------------------------------ program constants
APIKeyLen == 22
ServerNameMax == 64
DefaultTimeoutSec == 60
DefaultRetries == 5

\* --------------------------------------------------------------- strings
Rep(c, n) == [i \in 1..n |-> c]

\* the characters of the class [A-Za-z0-9]
IsAlnum(c) == (c >= 65 /\ c <= 90) \/ (c >= 97 /\ c <= 122) \/ (c >= 48 /\ c <= 57)

\* the characters of the class [A-Za-z0-9_.-]
IsNameChar(c) == IsAlnum(c) \/ c = 95 \/ c = 46 \/ c = 45

\* the key regexp without its anchors: 22 such characters somewhere
RxAPIKeyMatchUnanchored(s) ==
    \E i \in 0..Len(s) :
        /\ i + APIKeyLen <= Len(s)
        /\ \A j \in (i + 1)..(i + APIKeyLen) : IsAlnum(s[j])

\* api.RxAPIKey.MatchString: ^[A-Za-z0-9]{22}$
RxAPIKeyMatch(s) == Len(s) = APIKeyLen /\ \A i \in 1..Len(s) : IsAlnum(s[i])

\* the name regexp with its upper bound off by one
RxServerMatchOffByOne(s) ==
    /\ Len(s) >= 1
    /\ Len(s) <= ServerNameMax + 1
    /\ \A i \in 1..Len(s) : IsNameChar(s[i])

\* api.RxServer.MatchString: ^[A-Za-z0-9_.-]{1,64}$
RxServerMatch(s) ==
    /\ Len(s) >= 1
    /\ Len(s) <= ServerNameMax
    /\ \A i \in 1..Len(s) : IsNameChar(s[i])

\* strings.HasPrefix
HasPrefix(s, p) == Len(s) >= Len(p) /\ \A i \in 1..Len(p) : s[i] = p[i]

\* the literals "1." and "1.0" of the schema-version checks
MajorOnePrefix == <<49, 46>>
VersionOneZero == <<49, 46, 48>>

\* ------------------------------------------------------------------ time
\* const sixMonths = 180 * 24 * time.Hour, in seconds
sixMonths == 180 * 24 * 3600

\* time.Unix(sec, 0)
Unix(sec) == [sec |-> sec, nsec |-> 0]

\* Time.Add of a whole number of seconds
Add(t, d) == [sec |-> t.sec + d, nsec |-> t.nsec]

\* Time.Before / Time.After
Before(t, u) == t.sec < u.sec \/ (t.sec = u.sec /\ t.nsec < u.nsec)
After(t, u) == Before(u, t)

\* Time.Year of the instant t in a zone tz seconds east of UTC (proleptic
\* Gregorian calendar, instants after 1970)
Year(t, tz) ==
    LET days == (t.sec + tz) \div 86400
        z    == days + 719468
        era  == z \div 146097
        doe  == z - era * 146097
        yoe  == (doe - doe \div 1460 + doe \div 36524 - doe \div 146096) \div 365
        doy  == doe - (365 * yoe + yoe \div 4 - yoe \div 100)
        mp   == (5 * doy + 2) \div 153
        m    == IF mp < 10 THEN mp + 3 ELSE mp - 9
    IN  yoe + era * 400 + (IF m <= 2 THEN 1 ELSE 0)

\* ------------------------------------------------------------------ state
VARIABLES
    rev,        \* which revision of main.go runs: "2018" (quick) or "2023" (report)
    pc,         \* position of the run
    o,          \* the options struct
    command,    \* args[0] once parse has read it
    args,       \* args[1:] once parse has read them
    client,     \* the api.RestV1Client main constructs
    model,      \* the decoded pgmetrics.Model
    now,        \* the wall clock when the collection timestamp is checked
    err,        \* what the submit call returned
    requests,   \* the requests handed to the network client, in order
    exitCode,   \* -1 while running, else the process exit code
    msg,        \* what the run last printed when it ended
    steps,      \* the steps the run has completed, in order
    rule,       \* the AlertingRule under validation
    reqFamily,  \* the required-unit-family trait of rule.ruleType
    verdict,    \* what the validator found for rule
    settings,   \* the AlertSettings of the exchange
    traits,     \* the static tables: required unit family, address format check
    status,     \* the AlertStatus document received for settings
    exchange    \* how far the settings exchange is, and what it found

cliVars == <<rev, pc, o, command, args, client, model, now, err, requests,
             exitCode, msg, steps>>
settingsVars == <<settings, traits, status, exchange>>
ruleVars == <<rule, reqFamily, verdict, settings, traits, status, exchange>>
vars == <<rev, pc, o, command, args, client, model, now, err, requests,
          exitCode, msg, steps, rule, reqFamily, verdict, settings, traits,
          status, exchange>>

\* ----------------------------------------------------------------- inputs
EmptyString == <<>>
ValidKey == Rep(65, 10) \o Rep(122, 10) \o <<48, 57>>
KeyInputs ==
    { EmptyString,
      ValidKey,
      Rep(97, APIKeyLen - 1),
      Rep(97, APIKeyLen + 1),
      Rep(97, APIKeyLen - 1) \o <<95>> }

NameInputs ==
    { EmptyString,
      <<90>>,
      Rep(97, ServerNameMax - 3) \o <<95, 46, 45>>,
      Rep(97, ServerNameMax + 1),
      <<97, 47>> }

RECURSIVE SeqsUpTo(_, _)
SeqsUpTo(S, n) ==
    IF n = 0 THEN { <<>> }
    ELSE LET shorter == SeqsUpTo(S, n - 1)
         IN  shorter \cup { Append(q, x) : q \in { r \in shorter : Len(r) = n - 1 }, x \in S }

ArgInputs == SeqsUpTo(NameInputs, MaxArgs)
CommandInputs == { "", "quick", "report", "report-pgbouncer", "status" }
TimeoutInputs == { 0, 1, DefaultTimeoutSec }
RetryInputs == { 0, 1, 2, DefaultRetries }
HelpInputs == { "", "short", "variables", "all" }

\* schema versions: "", "1.0", "1.17", "2.0", "1", "10.0"
VersionInputs ==
    { EmptyString, VersionOneZero, <<49, 46, 49, 55>>, <<50, 46, 48>>, <<49>>,
      <<49, 48, 46, 48>> }

\* wall clocks: 2019-07-01 00:00:00 UTC and 2023-06-01 00:00:00 UTC, on a
\* second boundary and half a second past it
NowSecInputs == { 1561939200, 1685577600 }
NowInputs == { [sec |-> s, nsec |-> n] : s \in NowSecInputs, n \in { 0, 500000000 } }
\* zones of the machine: UTC-5, UTC, UTC+5:30
ZoneInputs == { -18000, 0, 19800 }
\* collection timestamps: around the window of the 2023 clock, the 2019
\* clock, and midnight UTC of 2018-01-01
AtInputs ==
    { 1685577600 + d : d \in { 0 - sixMonths - 1, 0 - sixMonths, 0, sixMonths, sixMonths + 1 } }
    \cup { 1561939200, 1514764800 }

NoModel ==
    [read |-> FALSE, version |-> EmptyString, at |-> 0, pgbouncer |-> FALSE,
     userAgent |-> <<>>]
ModelInputs ==
    { [read |-> TRUE, version |-> v, at |-> a, pgbouncer |-> b, userAgent |-> <<>>] :
        v \in VersionInputs, a \in AtInputs, b \in BOOLEAN }
\* Metadata.UserAgent of the input: absent, or the collector's
UserAgentInputs == { <<>>, <<"pgmetrics/1.17.0">> }
\* the version string set during build
BuildVersionInputs == { "", "1.11.0" }
EnvInputs == { EmptyString, ValidKey }

NoTime == [sec |-> 0, nsec |-> 0]
NoError == [kind |-> "nil", code |-> 0]
\* what a submit call returns: nil, a *api.RestV1ClientError with an HTTP
\* status code, or another error (transport)
ErrInputs ==
    { NoError, [kind |-> "other", code |-> 0] }
    \cup { [kind |-> "client", code |-> c] : c \in { 400, 404, 500, 503 } }

NoClient == [made |-> FALSE, tout |-> 0, retries |-> 0]

\* --------------------------------------------------------------- messages
MsgTimeout == "timeout must be greater than 0"
MsgRetries == "retries must be greater than 1"
MsgTry == "Try \"pgdash --help\" for more information."
MsgNoCommand == "a command must be specified"
MsgUnknownCommand == "unknown command"
MsgUsage == "usage"
MsgVariables == "variables"
MsgVersion == "pgdash version"
MsgNoKey == "API key must be specified using the '-a' option for reporting."
MsgBadKey == "invalid API key format"
MsgNoServer == "Server name needs to be specified, try --help for help."
MsgReportSyntax == "invalid syntax for report command, try --help for help."
MsgPgBouncerSyntax == "invalid syntax for report-pgbouncer command, try --help for help."
MsgBadServer == "bad server name, must be 1-64 chars A-Z, a-z, 0-9, \"-\", \"_\", and \".\"."
MsgBadPgBouncer == "bad PgBouncer name, must be 1-64 chars A-Z, a-z, 0-9, \"-\", \"_\", and \".\"."
MsgReadFailed == "failed to read input"
MsgInvalidInput == "invalid input"
MsgBadVersion == "invalid input: bad schema version in pgmetrics json"
MsgBadTimestamp == "invalid input: bad collection timestamp in pgmetrics json"
MsgUsePgBouncer == "use report-pgbouncer to send PgBouncer information"
MsgNoPgBouncer == "pgmetrics report does not contain PgBouncer information"
MsgReport400 == "invalid API key or account limit reached"
MsgPgBouncer400 == "invalid API key or server not found"
Msg500 == "internal server error"
MsgRequestFailed == "API request failed"
MsgUploadOK == "Upload successful."

\* -------------------------------------------------------- initial states
NoOptions ==
    [timeoutSec |-> DefaultTimeoutSec, retries |-> DefaultRetries,
     apiKey |-> EmptyString, version |-> FALSE, help |-> ""]
NoFilter == [present |-> FALSE, filterType |-> "None", predicate |-> "", value |-> ""]
Num(n) == [kind |-> "num", n |-> n]
NaN == [kind |-> "nan", n |-> 0]
PlusInf == [kind |-> "inf", n |-> 1]
MinusInf == [kind |-> "inf", n |-> -1]
Absent == [kind |-> "absent", n |-> 0]
NoRule ==
    [ruleType |-> 0, filter |-> NoFilter, value1 |-> Num(0), unit1 |-> "None",
     value2 |-> Absent, unit2 |-> "None"]
NoVerdict == [done |-> FALSE, scope |-> "Unknown", filterValid |-> TRUE, reason |-> ""]

CliIdle ==
    /\ o = NoOptions
    /\ command = ""
    /\ args = <<>>
    /\ client = NoClient
    /\ model = NoModel
    /\ now = NoTime
    /\ err = NoError
    /\ requests = <<>>
    /\ exitCode = -1
    /\ msg = ""
    /\ steps = <<>>

NoSettings == [version |-> 0, rules |-> <<>>, emails |-> {}]
NoTraits == [family |-> <<>>, plausible |-> {}]
NoStatus == [version |-> 0, ruleStatus |-> <<>>]
NoExchange == [phase |-> "idle", valid |-> FALSE, accepted |-> FALSE, ruleStatus |-> <<>>]

SettingsIdle ==
    /\ settings = NoSettings
    /\ traits = NoTraits
    /\ status = NoStatus
    /\ exchange = NoExchange

RuleIdle ==
    /\ rule = NoRule
    /\ reqFamily = "Unknown"
    /\ verdict = NoVerdict
    /\ SettingsIdle

\* main, before o.parse(): o.defaults() has run
Init ==
    /\ rev \in { "2018", "2023" }
    /\ pc = "parse"
    /\ CliIdle
    /\ RuleIdle

\* ---------------------------------------------------------- options.parse
Commands2018 == { "quick" }
Commands2023 == { "report", "report-pgbouncer" }

\* the checks of options.parse with the help and version actions moved
\* ahead of the value checks
ParseOutcomeActionsFirst(opt, hasCommand, cmd, known) ==
    IF opt.help # "" /\ opt.help # "short" /\ opt.help # "variables"
    THEN [code |-> 2, msg |-> MsgTry, argsRead |-> FALSE]
    ELSE IF opt.help = "short"
    THEN [code |-> 0, msg |-> MsgUsage, argsRead |-> FALSE]
    ELSE IF opt.help = "variables"
    THEN [code |-> 0, msg |-> MsgVariables, argsRead |-> FALSE]
    ELSE IF opt.version
    THEN [code |-> 0, msg |-> MsgVersion, argsRead |-> FALSE]
    ELSE IF opt.timeoutSec = 0
    THEN [code |-> 2, msg |-> MsgTimeout, argsRead |-> FALSE]
    ELSE IF opt.retries <= 1
    THEN [code |-> 2, msg |-> MsgRetries, argsRead |-> FALSE]
    ELSE IF ~hasCommand
    THEN [code |-> 2, msg |-> MsgNoCommand, argsRead |-> TRUE]
    ELSE IF cmd \notin known
    THEN [code |-> 2, msg |-> MsgUnknownCommand, argsRead |-> TRUE]
    ELSE [code |-> -1, msg |-> "", argsRead |-> TRUE]

\* the checks of options.parse after getopt has filled the struct: the exit
\* code and message, or code -1 when parse returns the arguments
ParseOutcome(opt, hasCommand, cmd, known) ==
    IF opt.help # "" /\ opt.help # "short" /\ opt.help # "variables"
    THEN [code |-> 2, msg |-> MsgTry, argsRead |-> FALSE]
    ELSE IF opt.timeoutSec = 0
    THEN [code |-> 2, msg |-> MsgTimeout, argsRead |-> FALSE]
    ELSE IF opt.retries <= 1
    THEN [code |-> 2, msg |-> MsgRetries, argsRead |-> FALSE]
    ELSE IF opt.help = "short"
    THEN [code |-> 0, msg |-> MsgUsage, argsRead |-> FALSE]
    ELSE IF opt.help = "variables"
    THEN [code |-> 0, msg |-> MsgVariables, argsRead |-> FALSE]
    ELSE IF opt.version
    THEN [code |-> 0, msg |-> MsgVersion, argsRead |-> FALSE]
    ELSE IF ~hasCommand
    THEN [code |-> 2, msg |-> MsgNoCommand, argsRead |-> TRUE]
    ELSE IF cmd \notin known
    THEN [code |-> 2, msg |-> MsgUnknownCommand, argsRead |-> TRUE]
    ELSE [code |-> -1, msg |-> "", argsRead |-> TRUE]

\* the state options.parse leaves: it exits, or returns to main
ParseEffect(opt, hasCommand, cmd, rest, known) ==
    LET out == ParseOutcome(opt, hasCommand, cmd, known)
    IN  /\ o' = opt
        /\ command' = IF out.argsRead /\ hasCommand THEN cmd ELSE ""
        /\ args' = IF out.argsRead /\ hasCommand THEN rest ELSE <<>>
        /\ exitCode' = out.code
        /\ msg' = out.msg
        /\ pc' = IF out.code = -1 THEN "main" ELSE "done"
        /\ steps' = Append(steps, "options")
        /\ UNCHANGED <<rev, client, model, now, err, requests>>
        /\ UNCHANGED ruleVars

\* options.parse of the 2018 revision: no environment variable
Parse2018 ==
    /\ pc = "parse"
    /\ rev = "2018"
    /\ \E t \in TimeoutInputs, r \in RetryInputs, h \in HelpInputs, v \in BOOLEAN,
          k \in KeyInputs, hasCommand \in BOOLEAN, cmd \in CommandInputs,
          rest \in ArgInputs :
        /\ ~hasCommand => (cmd = "" /\ rest = <<>>)
        /\ ParseEffect([timeoutSec |-> t, retries |-> r, apiKey |-> k,
                        version |-> v, help |-> h],
                       hasCommand, cmd, rest, Commands2018)

\* options.parse of the 2023 revision: PDAPIKEY stands in for a missing -a
Parse ==
    /\ pc = "parse"
    /\ rev = "2023"
    /\ \E t \in TimeoutInputs, r \in RetryInputs, h \in HelpInputs, v \in BOOLEAN,
          k \in KeyInputs, env \in EnvInputs, hasCommand \in BOOLEAN,
          cmd \in CommandInputs, rest \in ArgInputs :
        /\ ~hasCommand => (cmd = "" /\ rest = <<>>)
        /\ ParseEffect([timeoutSec |-> t, retries |-> r,
                        apiKey |-> IF k = EmptyString THEN env ELSE k,
                        version |-> v, help |-> h],
                       hasCommand, cmd, rest, Commands2023)

\* main after parse: the client is constructed and the command dispatched
CreateClient ==
    /\ pc = "main"
    /\ client' = [made |-> TRUE, tout |-> o.timeoutSec, retries |-> o.retries]
    /\ pc' = IF command = "quick" THEN "quickRead" ELSE "checkAPIKey"
    /\ UNCHANGED <<rev, o, command, args, model, now, err, requests, exitCode,
                   msg, steps>>
    /\ UNCHANGED ruleVars

\* log.Fatal: print and exit with code 1
Fatal(m) ==
    /\ pc' = "done"
    /\ exitCode' = 1
    /\ msg' = m

\* the step goes on to the position next
Continue(next) ==
    /\ pc' = next
    /\ UNCHANGED <<exitCode, msg>>

\* a step whose failure is printed without ending the run
StepPrintOnly(name, failMsg, next) ==
    /\ steps' = Append(steps, name)
    /\ pc' = next
    /\ exitCode' = exitCode
    /\ msg' = IF failMsg # "" THEN failMsg ELSE msg

\* a step of a command: it is logged, and fails with failMsg or goes on
Step(name, failMsg, next) ==
    /\ steps' = Append(steps, name)
    /\ IF failMsg # "" THEN Fatal(failMsg) ELSE Continue(next)

\* ------------------------------------------------------------ checkAPIKey
CheckAPIKeyOutcome(key) ==
    IF Len(key) = 0 THEN MsgNoKey
    ELSE IF ~RxAPIKeyMatch(key) THEN MsgBadKey
    ELSE ""

CheckAPIKey ==
    /\ pc = "checkAPIKey"
    /\ Step("apikey", CheckAPIKeyOutcome(o.apiKey), "checkArgs")
    /\ UNCHANGED <<rev, o, command, args, client, model, now, err, requests>>
    /\ UNCHANGED ruleVars

\* ------------------------------------------------- argument checks
CmdReportArgsOutcome(a) ==
    IF Len(a) = 0 THEN MsgNoServer
    ELSE IF Len(a) # 1 THEN MsgReportSyntax
    ELSE IF ~RxServerMatch(a[1]) THEN MsgBadServer
    ELSE ""

CmdReportPgBouncerArgsOutcome(a) ==
    IF Len(a) # 2 THEN MsgPgBouncerSyntax
    ELSE IF ~RxServerMatch(a[1]) THEN MsgBadServer
    ELSE IF ~RxServerMatch(a[2]) THEN MsgBadPgBouncer
    ELSE ""

CmdReportCheckArgs ==
    /\ pc = "checkArgs"
    /\ command = "report"
    /\ Step("args", CmdReportArgsOutcome(args), "getReport")
    /\ UNCHANGED <<rev, o, command, args, client, model, now, err, requests>>
    /\ UNCHANGED ruleVars

CmdReportPgBouncerCheckArgs ==
    /\ pc = "checkArgs"
    /\ command = "report-pgbouncer"
    /\ Step("args", CmdReportPgBouncerArgsOutcome(args), "getReport")
    /\ UNCHANGED <<rev, o, command, args, client, model, now, err, requests>>
    /\ UNCHANGED ruleVars

\* ---------------------------------------------------------------- getReport
\* reading the file or stdin and json.Unmarshal: either fails, or a model
GetReportRead ==
    /\ pc = "getReport"
    /\ \/ /\ \E m \in { MsgReadFailed, MsgInvalidInput } : Step("read", m, "done")
          /\ UNCHANGED model
       \/ /\ \E m \in ModelInputs, ua \in UserAgentInputs :
                model' = [m EXCEPT !.userAgent = ua]
          /\ Step("read", "", "checkVersion")
    /\ UNCHANGED <<rev, o, command, args, client, now, err, requests>>
    /\ UNCHANGED ruleVars

\* only major version 1 is known
VersionOutcome(ver) ==
    IF ~HasPrefix(ver, MajorOnePrefix) THEN MsgBadVersion ELSE ""

GetReportCheckVersion ==
    /\ pc = "checkVersion"
    /\ Step("version", VersionOutcome(model.version), "checkTimestamp")
    /\ UNCHANGED <<rev, o, command, args, client, model, now, err, requests>>
    /\ UNCHANGED ruleVars

\* the collection timestamp against the clock n
TimestampOutcome(at, n) ==
    IF Before(at, Add(n, 0 - sixMonths)) \/ After(at, Add(n, sixMonths))
    THEN MsgBadTimestamp
    ELSE ""

\* the user agent getReport appends to the model's
AppendUserAgent(ua, ver) ==
    (IF Len(ua) > 0 THEN Append(ua, " ") ELSE ua)
        \o <<"pgdash/", IF Len(ver) > 0 THEN ver ELSE "devel">>

\* the timestamp check and, when it passes, the rest of getReport
GetReportCheckTimestamp ==
    /\ pc = "checkTimestamp"
    /\ \E n \in NowInputs, ver \in BuildVersionInputs :
        /\ now' = n
        /\ Step("timestamp", TimestampOutcome(Unix(model.at), n), "checkModel")
        /\ model' = IF TimestampOutcome(Unix(model.at), n) = ""
                    THEN [model EXCEPT !.userAgent = AppendUserAgent(@, ver)]
                    ELSE model
    /\ UNCHANGED <<rev, o, command, args, client, err, requests>>
    /\ UNCHANGED ruleVars

\* ------------------------------------------- the PgBouncer-content checks
CmdReportModelOutcome(m) ==
    IF m.pgbouncer THEN MsgUsePgBouncer ELSE ""

\* the PgBouncer check that only looks for a model
CmdReportPgBouncerModelOutcomeNilOnly(m) ==
    IF ~m.read THEN MsgNoPgBouncer ELSE ""

CmdReportPgBouncerModelOutcome(m) ==
    IF ~m.read \/ ~m.pgbouncer THEN MsgNoPgBouncer ELSE ""

CmdReportCheckModel ==
    /\ pc = "checkModel"
    /\ command = "report"
    /\ Step("pgbouncer", CmdReportModelOutcome(model), "submit")
    /\ UNCHANGED <<rev, o, command, args, client, model, now, err, requests>>
    /\ UNCHANGED ruleVars

CmdReportPgBouncerCheckModel ==
    /\ pc = "checkModel"
    /\ command = "report-pgbouncer"
    /\ Step("pgbouncer", CmdReportPgBouncerModelOutcome(model), "submit")
    /\ UNCHANGED <<rev, o, command, args, client, model, now, err, requests>>
    /\ UNCHANGED ruleVars

\* ------------------------------------------------- the API call and after
\* the failure message for what client.Report returned, "" for none
CmdReportClassify(e) ==
    IF e.kind = "client" /\ e.code = 400 THEN MsgReport400
    ELSE IF e.kind = "client" /\ e.code = 500 THEN Msg500
    ELSE IF e.kind # "nil" THEN MsgRequestFailed
    ELSE ""

\* the classification with the 500 branch lost
CmdReportPgBouncerClassifyNo500(e) ==
    IF e.kind = "client" /\ e.code = 400 THEN MsgPgBouncer400
    ELSE IF e.kind # "nil" THEN MsgRequestFailed
    ELSE ""

\* the failure message for what client.ReportPgBouncer returned
CmdReportPgBouncerClassify(e) ==
    IF e.kind = "client" /\ e.code = 400 THEN MsgPgBouncer400
    ELSE IF e.kind = "client" /\ e.code = 500 THEN Msg500
    ELSE IF e.kind # "nil" THEN MsgRequestFailed
    ELSE ""

\* a command returns to main, which returns: exit code 0
Return ==
    /\ pc' = "done"
    /\ exitCode' = 0
    /\ msg' = ""

CmdReportSubmit ==
    /\ pc = "submit"
    /\ command = "report"
    /\ requests' = Append(requests,
            [call |-> "Report", apiKey |-> o.apiKey, server |-> args[1],
             pgbouncer |-> EmptyString, data |-> model])
    /\ \E e \in ErrInputs :
        /\ err' = e
        /\ steps' = Append(steps, "submit")
        /\ IF CmdReportClassify(e) # "" THEN Fatal(CmdReportClassify(e)) ELSE Return
    /\ UNCHANGED <<rev, o, command, args, client, model, now>>
    /\ UNCHANGED ruleVars

CmdReportPgBouncerSubmit ==
    /\ pc = "submit"
    /\ command = "report-pgbouncer"
    /\ requests' = Append(requests,
            [call |-> "ReportPgBouncer", apiKey |-> o.apiKey, server |-> args[1],
             pgbouncer |-> args[2], data |-> model])
    /\ \E e \in ErrInputs :
        /\ err' = e
        /\ steps' = Append(steps, "submit")
        /\ IF CmdReportPgBouncerClassify(e) # ""
           THEN Fatal(CmdReportPgBouncerClassify(e))
           ELSE Return
    /\ UNCHANGED <<rev, o, command, args, client, model, now>>
    /\ UNCHANGED ruleVars

\* ----------------------------------------------- cmdQuick (2018 revision)
QuickRead ==
    /\ pc = "quickRead"
    /\ \/ /\ \E m \in { MsgReadFailed, MsgInvalidInput } : Step("read", m, "done")
          /\ UNCHANGED model
       \/ /\ \E m \in ModelInputs : model' = m
          /\ Step("read", "", "quickVersion")
    /\ UNCHANGED <<rev, o, command, args, client, now, err, requests>>
    /\ UNCHANGED ruleVars

\* only version "1.0" is known
QuickVersionOutcome(ver) ==
    IF ver # VersionOneZero THEN MsgBadVersion ELSE ""

QuickCheckVersion ==
    /\ pc = "quickVersion"
    /\ Step("version", QuickVersionOutcome(model.version), "quickTimestamp")
    /\ UNCHANGED <<rev, o, command, args, client, model, now, err, requests>>
    /\ UNCHANGED ruleVars

\* the year of the collection timestamp in the machine's zone
QuickTimestampOutcome(at, tz) ==
    IF Year(at, tz) < 2018 \/ Year(at, tz) > 2020 THEN MsgBadTimestamp ELSE ""

\* cmdQuick does not read the clock; now records what it shows at this step
QuickCheckTimestamp ==
    /\ pc = "quickTimestamp"
    /\ \E n \in NowInputs, tz \in ZoneInputs :
        /\ now' = n
        /\ Step("timestamp", QuickTimestampOutcome(Unix(model.at), tz), "quickSubmit")
    /\ UNCHANGED <<rev, o, command, args, client, model, err, requests>>
    /\ UNCHANGED ruleVars

\* the failure message for what client.Quick returned
QuickClassify(e) ==
    IF e.kind # "nil" THEN MsgRequestFailed ELSE ""

QuickSubmit ==
    /\ pc = "quickSubmit"
    /\ requests' = Append(requests,
            [call |-> "Quick", apiKey |-> EmptyString, server |-> EmptyString,
             pgbouncer |-> EmptyString, data |-> model])
    /\ \E e \in ErrInputs :
        /\ err' = e
        /\ steps' = Append(steps, "submit")
        /\ IF QuickClassify(e) # ""
           THEN Fatal(QuickClassify(e))
           ELSE /\ pc' = "done"
                /\ exitCode' = 0
                /\ msg' = MsgUploadOK
    /\ UNCHANGED <<rev, o, command, args, client, model, now>>
    /\ UNCHANGED ruleVars

\* ---------------------------------------------------------- specification
Next ==
    \/ Parse2018
    \/ Parse
    \/ CreateClient
    \/ CheckAPIKey
    \/ CmdReportCheckArgs
    \/ CmdReportPgBouncerCheckArgs
    \/ GetReportRead
    \/ GetReportCheckVersion
    \/ GetReportCheckTimestamp
    \/ CmdReportCheckModel
    \/ CmdReportPgBouncerCheckModel
    \/ CmdReportSubmit
    \/ CmdReportPgBouncerSubmit
    \/ QuickRead
    \/ QuickCheckVersion
    \/ QuickCheckTimestamp
    \/ QuickSubmit

Spec == Init /\ [][Next]_vars

\* ------------------------------------------- unit and scope taxonomy
ByteUnits == { "Bytes", "KiB", "MiB", "GiB", "TiB" }
TimeUnits == { "Seconds", "Minutes", "Hours", "Days" }
Units == { "None" } \cup ByteUnits \cup TimeUnits

\* the family of a unit
FamilyOf(u) ==
    IF u \in ByteUnits THEN "Bytes"
    ELSE IF u \in TimeUnits THEN "Time"
    ELSE "None"

ServerRules == 1..13
DatabaseRules == 101..107
TableRules == 201..208
TablespaceRules == 301..303
\* server backend-transaction-open duration, the dual-value rule
RuleSrvBETxnOpen == 11

\* the scope lookup with the server range one too long
scopeOfOffByOne(id) ==
    IF id \in 1..14 THEN "Server"
    ELSE IF id \in DatabaseRules THEN "Database"
    ELSE IF id \in TableRules THEN "Table"
    ELSE IF id \in TablespaceRules THEN "Tablespace"
    ELSE "Unknown"

scopeOf(id) ==
    IF id \in ServerRules THEN "Server"
    ELSE IF id \in DatabaseRules THEN "Database"
    ELSE IF id \in TableRules THEN "Table"
    ELSE IF id \in TablespaceRules THEN "Tablespace"
    ELSE "Unknown"

\* requiredUnitFamily: the families the static table may hold for id.  The
\* table's entries are fixed for 11 (a duration), 105 (a size in bytes) and
\* 107 (a ratio); any family may stand for the other rules, and Unknown for
\* an id outside the four ranges.
RequiredUnitFamilies(id) ==
    IF scopeOf(id) = "Unknown" THEN { "Unknown" }
    ELSE IF id = RuleSrvBETxnOpen THEN { "Time" }
    ELSE IF id = 105 THEN { "Bytes" }
    ELSE IF id = 107 THEN { "None" }
    ELSE { "None", "Bytes", "Time" }

\* ------------------------------------------------------------ filter model
Predicates == { "Contains", "NotContains", "StartsWith", "EndsWith", "Equals" }

\* the structural check that forgets the value of a ByParent filter
isStructurallyValidLax(f) ==
    IF f.filterType = "ByPredicate" THEN f.predicate \in Predicates /\ f.value # ""
    ELSE TRUE

\* filter.isStructurallyValid()
isStructurallyValid(f) ==
    IF f.filterType = "ByPredicate" THEN f.predicate \in Predicates /\ f.value # ""
    ELSE IF f.filterType = "ByParent" THEN f.value # ""
    ELSE TRUE

\* ---------------------------------------------------------- rule validator
\* the range check written as "not below zero", which NaN and +Inf pass
InRangeNotBelowZero(v) ==
    /\ v.kind \in { "num", "nan", "inf" }
    /\ ~(v.kind \in { "num", "inf" } /\ v.n < 0)

\* a float that is >= 0, finite and not NaN
InRange(v) == v.kind = "num" /\ v.n >= 0

\* the filter check with one rule for every scope below the server
FilterLegalityOneRule(sc, f) ==
    IF sc = "Server"
    THEN IF f.present /\ f.filterType # "None" THEN "FilterNotAllowedForScope" ELSE ""
    ELSE IF ~f.present THEN ""
    ELSE IF ~isStructurallyValid(f) THEN "MalformedFilter"
    ELSE ""

\* step 2: the filter against the scope, "" when it is legal
FilterLegality(sc, f) ==
    IF sc = "Server"
    THEN IF f.present /\ f.filterType # "None" THEN "FilterNotAllowedForScope" ELSE ""
    ELSE IF ~f.present THEN ""
    ELSE IF ~isStructurallyValid(f) THEN "MalformedFilter"
    ELSE IF sc \in { "Database", "Tablespace" } /\ f.filterType = "ByParent"
    THEN "FilterTypeNotAllowedForScope"
    ELSE ""

\* the second pair checked without its unit
SecondPairNoUnit(r) ==
    IF r.ruleType # RuleSrvBETxnOpen THEN ""
    ELSE IF r.value2.kind = "absent" THEN "Value2Required"
    ELSE IF ~InRange(r.value2) THEN "Value2OutOfRange"
    ELSE ""

\* step 5: the second value/unit pair of the dual-value rule
SecondPair(r) ==
    IF r.ruleType # RuleSrvBETxnOpen THEN ""
    ELSE IF r.value2.kind = "absent" THEN "Value2Required"
    ELSE IF ~InRange(r.value2) THEN "Value2OutOfRange"
    ELSE IF r.unit2 # "None" THEN "Unit2MustBeNone"
    ELSE ""

\* the validator that lets a rule without a unit through
validateUnitOptional(r, fam) ==
    IF scopeOf(r.ruleType) = "Unknown" THEN "UnknownRuleType"
    ELSE IF FilterLegality(scopeOf(r.ruleType), r.filter) # ""
    THEN FilterLegality(scopeOf(r.ruleType), r.filter)
    ELSE IF ~InRange(r.value1) THEN "Value1OutOfRange"
    ELSE IF r.unit1 # "None" /\ FamilyOf(r.unit1) # fam THEN "UnitMismatch"
    ELSE IF SecondPair(r) # "" THEN SecondPair(r)
    ELSE "OK"

\* validate(rule) with fam the required unit family of rule.ruleType: the
\* reason code of the first failing step, "OK" when none fails
validate(r, fam) ==
    IF scopeOf(r.ruleType) = "Unknown" THEN "UnknownRuleType"
    ELSE IF FilterLegality(scopeOf(r.ruleType), r.filter) # ""
    THEN FilterLegality(scopeOf(r.ruleType), r.filter)
    ELSE IF ~InRange(r.value1) THEN "Value1OutOfRange"
    ELSE IF FamilyOf(r.unit1) # fam THEN "UnitMismatch"
    ELSE IF SecondPair(r) # "" THEN SecondPair(r)
    ELSE "OK"

\* ----------------------------------------------------- validator inputs
RuleIDInputs == (0..14) \cup (100..108) \cup (200..209) \cup (300..304)
FilterInputs ==
    { NoFilter }
    \cup { [present |-> TRUE, filterType |-> "None", predicate |-> p, value |-> v] :
            <<p, v>> \in { <<"", "">>, <<"Equals", "x">> } }
    \cup { [present |-> TRUE, filterType |-> "ByPredicate", predicate |-> p, value |-> v] :
            p \in Predicates \cup { "" }, v \in { "", "prod_" } }
    \cup { [present |-> TRUE, filterType |-> "ByParent", predicate |-> p, value |-> v] :
            p \in { "", "Contains" }, v \in { "", "x", "public" } }
Value1Inputs == { Num(n) : n \in (-1..MaxValue) \cup { 90 } } \cup { NaN, PlusInf, MinusInf }
Value2Inputs == { Absent, Num(-1), Num(0), NaN }
Unit2Inputs == { "None", "Bytes", "Seconds" }
RuleInputs ==
    [ruleType : RuleIDInputs, filter : FilterInputs, value1 : Value1Inputs,
     unit1 : Units, value2 : Value2Inputs, unit2 : Unit2Inputs]

\* a caller has constructed a rule; the uploader is not running
InitRule ==
    /\ rev = "2023"
    /\ pc = "validate"
    /\ CliIdle
    /\ rule \in RuleInputs
    /\ reqFamily = "Unknown"
    /\ verdict = NoVerdict
    /\ SettingsIdle

\* the validator runs on the rule
Validate ==
    /\ pc = "validate"
    /\ ~verdict.done
    /\ \E fam \in RequiredUnitFamilies(rule.ruleType) :
        /\ reqFamily' = fam
        /\ verdict' = [done |-> TRUE,
                       scope |-> scopeOf(rule.ruleType),
                       filterValid |-> isStructurallyValid(rule.filter),
                       reason |-> validate(rule, fam)]
    /\ UNCHANGED <<rule, settingsVars>>
    /\ UNCHANGED cliVars

NextRule == Validate

SpecRule == InitRule /\ [][NextRule]_vars

\* ------------------------------------------- settings and status aggregates
\* the sequence q back to front
Reverse(q) == [i \in 1..Len(q) |-> q[Len(q) + 1 - i]]

\* isValid with a cross-rule condition: no two rules of one RuleID
isValidNoDuplicates(s, t) ==
    /\ \A i \in 1..Len(s.rules) :
            validate(s.rules[i], t.family[s.rules[i].ruleType]) = "OK"
    /\ \A i, j \in 1..Len(s.rules) :
            i # j => s.rules[i].ruleType # s.rules[j].ruleType
    /\ s.emails \subseteq t.plausible

\* AlertSettings.isValid() under the tables t: every rule passes validate
\* on its own and every address passes the format check
isValid(s, t) ==
    /\ \A i \in 1..Len(s.rules) :
            validate(s.rules[i], t.family[s.rules[i].ruleType]) = "OK"
    /\ s.emails \subseteq t.plausible

\* the decoder that cuts the longer of the two sequences to fit
decodePairTruncating(s, st) ==
    LET n == IF Len(st.ruleStatus) < Len(s.rules) THEN Len(st.ruleStatus)
             ELSE Len(s.rules)
    IN  [accepted |-> TRUE, ruleStatus |-> SubSeq(st.ruleStatus, 1, n)]

\* decoding an AlertStatus against the AlertSettings it answers: a pair
\* whose lengths differ is rejected, an aligned one is delivered as it is
decodePair(s, st) ==
    IF Len(st.ruleStatus) = Len(s.rules)
    THEN [accepted |-> TRUE, ruleStatus |-> st.ruleStatus]
    ELSE [accepted |-> FALSE, ruleStatus |-> <<>>]

\* ----------------------------------------------------- settings inputs
RuleCacheHit(v) ==
    [ruleType |-> 107, filter |-> NoFilter, value1 |-> v, unit1 |-> "None",
     value2 |-> Absent, unit2 |-> "None"]
SettingsRuleInputs ==
    { RuleCacheHit(Num(90)),
      RuleCacheHit(Num(0)),
      RuleCacheHit(Num(-1)),
      [ruleType |-> 207,
       filter |-> [present |-> TRUE, filterType |-> "ByParent", predicate |-> "",
                   value |-> "public"],
       value1 |-> Num(1), unit1 |-> "GiB", value2 |-> Absent, unit2 |-> "None"],
      [ruleType |-> RuleSrvBETxnOpen, filter |-> NoFilter, value1 |-> Num(1),
       unit1 |-> "Minutes", value2 |-> Num(0), unit2 |-> "None"],
      [ruleType |-> 14, filter |-> NoFilter, value1 |-> Num(0), unit1 |-> "None",
       value2 |-> Absent, unit2 |-> "None"] }
SettingsRuleIDs == { r.ruleType : r \in SettingsRuleInputs }
EmailInputs == { "dba@example.com", "dba.example.com" }
SettingsInputs ==
    { [version |-> 1, rules |-> rs, emails |-> es] :
        rs \in SeqsUpTo(SettingsRuleInputs, MaxRules), es \in SUBSET EmailInputs }
\* the tables the validator may be built with: a required unit family for
\* each RuleID, and the addresses its format check lets through
TraitsInputs ==
    { [family |-> f, plausible |-> ok] :
        f \in { g \in [SettingsRuleIDs -> { "None", "Bytes", "Time", "Unknown" }] :
                    \A id \in SettingsRuleIDs : g[id] \in RequiredUnitFamilies(id) },
        ok \in SUBSET EmailInputs }
\* the statuses of one rule: none, one, or one per matched object
OneStatus(st, v) == [status |-> st, value |-> v]
RuleStatusInputs ==
    { <<>>, <<OneStatus(0, 95)>>, <<OneStatus(1, 80), OneStatus(-1, 0)>> }
StatusInputs ==
    { [version |-> 1, ruleStatus |-> rs] :
        rs \in SeqsUpTo(RuleStatusInputs, MaxRules + 1) }

\* a caller has assembled an AlertSettings; the uploader is not running
InitSettings ==
    /\ rev = "2023"
    /\ pc = "settings"
    /\ CliIdle
    /\ rule = NoRule
    /\ reqFamily = "Unknown"
    /\ verdict = NoVerdict
    /\ settings \in SettingsInputs
    /\ traits \in TraitsInputs
    /\ status = NoStatus
    /\ exchange = [NoExchange EXCEPT !.phase = "built"]

\* the caller asks whether the settings are valid
IsValid ==
    /\ exchange.phase = "built"
    /\ exchange' = [exchange EXCEPT !.phase = "validated",
                                    !.valid = isValid(settings, traits)]
    /\ UNCHANGED <<settings, traits, status>>
    /\ UNCHANGED <<rule, reqFamily, verdict>>
    /\ UNCHANGED cliVars

\* valid settings are submitted and the status document for them arrives
FetchAlertStatus ==
    /\ exchange.phase = "validated"
    /\ exchange.valid
    /\ status' \in StatusInputs
    /\ exchange' = [exchange EXCEPT !.phase = "fetched"]
    /\ UNCHANGED <<settings, traits>>
    /\ UNCHANGED <<rule, reqFamily, verdict>>
    /\ UNCHANGED cliVars

\* the status document is decoded against the settings it answers
DecodeStatus ==
    /\ exchange.phase = "fetched"
    /\ exchange' = [exchange EXCEPT
            !.phase = "decoded",
            !.accepted = decodePair(settings, status).accepted,
            !.ruleStatus = decodePair(settings, status).ruleStatus]
    /\ UNCHANGED <<settings, traits, status>>
    /\ UNCHANGED <<rule, reqFamily, verdict>>
    /\ UNCHANGED cliVars

NextSettings ==
    \/ IsValid
    \/ FetchAlertStatus
    \/ DecodeStatus

SpecSettings == InitSettings /\ [][NextSettings]_vars

\* ------------------------------------------------------- claims: the CLI
Range(q) == { q[i] : i \in 1..Len(q) }
Did(step) == step \in Range(steps)
LastStep == IF Len(steps) = 0 THEN "" ELSE steps[Len(steps)]

\* at lies in [n - 180 days, n + 180 days], n a clock with a fraction of a
\* second: compared as the real numbers they are
WithinSixMonths(at, n) ==
    LET d == at - n.sec
        frac == IF n.nsec > 0 THEN 1 ELSE 0
    IN  d >= frac - 180 * 86400 /\ d <= 180 * 86400

\* C1: once the collection timestamp has been checked, the snapshot was
\* rejected for its timestamp exactly when the timestamp lies outside
\* [now - 180 days, now + 180 days], whatever the calendar year, and a
\* rejected snapshot is not submitted.
C1_RollingWindowDecides ==
    Did("timestamp") =>
        /\ (msg = MsgBadTimestamp) <=> ~WithinSixMonths(model.at, now)
        /\ msg = MsgBadTimestamp => (requests = <<>> /\ exitCode = 1)

\* the text ver starts with "1."
StartsWithOneDot(ver) == Len(ver) >= 2 /\ ver[1] = 49 /\ ver[2] = 46

\* C2: once the schema version has been checked, the snapshot was rejected
\* for its version exactly when the version does not start with "1.", and a
\* rejected snapshot is not submitted.
C2_MajorVersionPrefixDecides ==
    Did("version") =>
        /\ (msg = MsgBadVersion) <=> ~StartsWithOneDot(model.version)
        /\ msg = MsgBadVersion => (requests = <<>> /\ exitCode = 1)

AlnumCodes == (48..57) \cup (65..90) \cup (97..122)
NameCodes == AlnumCodes \cup { 45, 46, 95 }
KeyTextOK(k) == Len(k) = 22 /\ Range(k) \subseteq AlnumCodes
NameTextOK(n) == Len(n) \in 1..64 /\ Range(n) \subseteq NameCodes

\* C3: in a run of report or report-pgbouncer every request handed to the
\* network client carries an API key of exactly 22 characters of
\* [A-Za-z0-9], and a run whose resolved key is anything else has failed at
\* the API-key check with nothing submitted.
C3_KeyFormatGuardsSubmit ==
    command \in Commands2023 =>
        /\ \A i \in 1..Len(requests) :
                requests[i].apiKey = o.apiKey /\ KeyTextOK(o.apiKey)
        /\ (Did("apikey") /\ ~KeyTextOK(o.apiKey)) =>
                /\ pc = "done"
                /\ exitCode = 1
                /\ LastStep = "apikey"
                /\ requests = <<>>

\* a report command has handed a request with a well-formed key to the client
C3_Witness ==
    /\ command \in Commands2023
    /\ Len(requests) = 1
    /\ KeyTextOK(requests[1].apiKey)

\* the arguments are what the command requires: one well-formed name for
\* report, two for report-pgbouncer
ArgsTextOK ==
    IF command = "report"
    THEN Len(args) = 1 /\ NameTextOK(args[1])
    ELSE Len(args) = 2 /\ NameTextOK(args[1]) /\ NameTextOK(args[2])

\* C4: every request of a report command carries the command's arguments as
\* its names, one for report and two for report-pgbouncer, each 1 to 64
\* characters of [A-Za-z0-9_.-]; a run with a wrong argument count or a
\* malformed name has failed at the argument check with nothing submitted.
C4_NameFormatGuardsSubmit ==
    command \in Commands2023 =>
        /\ \A i \in 1..Len(requests) :
                /\ ArgsTextOK
                /\ requests[i].server = args[1]
                /\ command = "report-pgbouncer" => requests[i].pgbouncer = args[2]
        /\ (Did("args") /\ ~ArgsTextOK) =>
                /\ pc = "done"
                /\ exitCode = 1
                /\ LastStep = "args"
                /\ requests = <<>>

\* report-pgbouncer has handed a request with two well-formed names, one of
\* them 64 characters long, to the client
C4_Witness ==
    /\ command = "report-pgbouncer"
    /\ Len(requests) = 1
    /\ Len(requests[1].server) = 64
    /\ NameTextOK(requests[1].pgbouncer)

\* C5: when a report command has made its submit call, a client error with
\* code 400 ends the run with the client/auth message, code 500 with the
\* internal-server-error message, any other error with the generic message;
\* the three messages differ; and the run ends with exit code 0 exactly when
\* the call returned no error.
C5_SubmitOutcomeClassified ==
    (command \in Commands2023 /\ Did("submit")) =>
        LET authMsg == IF command = "report" THEN MsgReport400 ELSE MsgPgBouncer400
        IN  /\ pc = "done"
            /\ (err.kind = "client" /\ err.code = 400) => msg = authMsg
            /\ (err.kind = "client" /\ err.code = 500) => msg = Msg500
            /\ (err.kind = "other" \/ (err.kind = "client" /\ err.code \notin { 400, 500 }))
                    => msg = MsgRequestFailed
            /\ authMsg # Msg500 /\ authMsg # MsgRequestFailed /\ Msg500 # MsgRequestFailed
            /\ exitCode = (IF err.kind = "nil" THEN 0 ELSE 1)
            /\ err.kind = "nil" => msg = ""

\* report-pgbouncer got a 500 from the server and said so
C5_Witness ==
    /\ command = "report-pgbouncer"
    /\ Did("submit")
    /\ err = [kind |-> "client", code |-> 500]
    /\ msg = Msg500

\* ------------------------------------------------ claims: the validator
AllRuleIDs == (1..13) \cup (101..107) \cup (201..208) \cup (301..303)
BytesText == { "Bytes", "KiB", "MiB", "GiB", "TiB" }
TimeText == { "Seconds", "Minutes", "Hours", "Days" }
UnitsOfFamily(fam) ==
    IF fam = "Bytes" THEN BytesText
    ELSE IF fam = "Time" THEN TimeText
    ELSE IF fam = "None" THEN { "None" }
    ELSE {}
Value1OK == rule.value1.kind = "num" /\ rule.value1.n >= 0
Unit1OK == rule.unit1 \in UnitsOfFamily(reqFamily)
Value2OK == rule.value2.kind = "num" /\ rule.value2.n >= 0

FilterTextLegal ==
    LET f == rule.filter
        id == rule.ruleType
        wellFormed ==
            \/ f.filterType = "None"
            \/ f.filterType = "ByPredicate" /\ f.predicate \in Predicates /\ f.value # ""
            \/ f.filterType = "ByParent" /\ f.value # ""
    IN  \/ ~f.present
        \/ id \in 1..13 /\ f.filterType = "None"
        \/ id \in (101..107) \cup (301..303) /\ wellFormed /\ f.filterType # "ByParent"
        \/ id \in 201..208 /\ wellFormed

RulePasses(i) ==
    validate(settings.rules[i], traits.family[settings.rules[i].ruleType]) = "OK"

C14_CommandsPartitionSnapshots ==
    command \in Commands2023 =>
        /\ Did("pgbouncer") =>
            LET refused == msg \in { MsgUsePgBouncer, MsgNoPgBouncer }
            IN  /\ command = "report" => (refused <=> model.pgbouncer)
                /\ command = "report-pgbouncer" => (refused <=> ~model.pgbouncer)
                /\ refused => (pc = "done" /\ exitCode = 1 /\ requests = <<>>)
                /\ ~refused => (pc = "submit" \/ Len(requests) = 1)
                /\ (CmdReportModelOutcome(model) = "")
                        # (CmdReportPgBouncerModelOutcome(model) = "")
        /\ \A i \in 1..Len(requests) :
                requests[i].data.pgbouncer <=> requests[i].call = "ReportPgBouncer"

\* report-pgbouncer has submitted a snapshot that carries PgBouncer
\* information
C14_Witness ==
    /\ command = "report-pgbouncer"
    /\ Len(requests) = 1
    /\ requests[1].call = "ReportPgBouncer"
    /\ requests[1].data.pgbouncer

\* C15: before parse the options hold the defaults 60 and 5; the client is
\* constructed with the timeout and retry count of the options, at least 1
\* second and at least 2 retries; a run given timeout 0 or a retry count of 0
\* or 1 has exited with code 2 in option validation, without the help or
\* version output even when those were asked for, with no command name or
\* argument read, no client, no input read and no request sent.
C15_ClientOptionsValidated ==
    /\ pc = "parse" => (o.timeoutSec = 60 /\ o.retries = 5)
    /\ client.made =>
            /\ client.tout = o.timeoutSec
            /\ client.retries = o.retries
            /\ client.tout >= 1
            /\ client.retries >= 2
    /\ (Did("options") /\ (o.timeoutSec = 0 \/ o.retries \in { 0, 1 })) =>
            /\ pc = "done"
            /\ exitCode = 2
            /\ steps = <<"options">>
            /\ msg \notin { MsgUsage, MsgVariables, MsgVersion }
            /\ command = ""
            /\ args = <<>>
            /\ ~client.made
            /\ model = NoModel
            /\ requests = <<>>

\* a run asked for help and the version with --timeout=0 and was refused for
\* the timeout
C15_Witness ==
    /\ Did("options")
    /\ o.timeoutSec = 0
    /\ o.help = "short"
    /\ o.version
    /\ exitCode = 2
    /\ msg = MsgTimeout

ReportOrder ==
    <<"options", "apikey", "args", "read", "version", "timestamp", "pgbouncer",
      "submit">>

\* the step at which a failure message is printed
StepOfMessage(m) ==
    IF m \in { MsgNoKey, MsgBadKey } THEN "apikey"
    ELSE IF m \in { MsgNoServer, MsgReportSyntax, MsgPgBouncerSyntax, MsgBadServer,
                    MsgBadPgBouncer } THEN "args"
    ELSE IF m \in { MsgReadFailed, MsgInvalidInput } THEN "read"
    ELSE IF m = MsgBadVersion THEN "version"
    ELSE IF m = MsgBadTimestamp THEN "timestamp"
    ELSE IF m \in { MsgUsePgBouncer, MsgNoPgBouncer } THEN "pgbouncer"
    ELSE IF m \in { MsgReport400, MsgPgBouncer400, Msg500, MsgRequestFailed } THEN "submit"
    ELSE ""

\* C16: in a run of a report command the steps done so far are an initial
\* part of: option validation, API-key check, argument checks, reading the
\* input, schema-version check, timestamp check, PgBouncer-content check,
\* submit; a step is done only when every check before it has passed; a run
\* that failed has ended at the step that failed; the input is not read
\* when the key or a name is invalid; and the submit call is made at most
\* once, at the submit step.
C16_StepsInOrder ==
    (rev = "2023" /\ command \in Commands2023) =>
        /\ Len(steps) <= Len(ReportOrder)
        /\ steps = SubSeq(ReportOrder, 1, Len(steps))
        /\ Len(steps) >= 3 => KeyTextOK(o.apiKey)
        /\ Len(steps) >= 4 => ArgsTextOK
        /\ Len(steps) >= 5 => model.read
        /\ Len(steps) >= 6 => StartsWithOneDot(model.version)
        /\ Len(steps) >= 7 => WithinSixMonths(model.at, now)
        /\ Len(steps) >= 8 => (model.pgbouncer <=> command = "report-pgbouncer")
        /\ (~KeyTextOK(o.apiKey) \/ ~ArgsTextOK) => (~Did("read") /\ model = NoModel)
        /\ exitCode = 1 =>
                /\ pc = "done"
                /\ StepOfMessage(msg) = LastStep
        /\ pc = "done" => exitCode \in { 0, 1 }
        /\ Len(requests) <= 1
        /\ Len(requests) = 1 <=> Did("submit")

\* a report run went through all eight steps and ended well
C16_Witness ==
    /\ command = "report"
    /\ steps = ReportOrder
    /\ pc = "done"
    /\ exitCode = 0
    /\ Len(requests) = 1

====
